---- MODULE Spec2Model ----
(***************************************************************************)
(* A state-machine model of class ED of energydiagram.py: the diagram      *)
(* model (levels, links, arrows, electron boxes, the running slot          *)
(* counter), the scale parameters and __auto_adjust, and the sequence of   *)
(* drawing primitives a plot() call hands to matplotlib.                   *)
(*                                                                         *)
(* Python floats are modelled as exact rationals <<n, d>> (d > 0, lowest   *)
(* terms); slots and level ids are integers.  Styles, colours and text     *)
(* contents are passed through to matplotlib unchanged and are left out,   *)
(* and so are a link's label fields: every link has label=None, for which  *)
(* plot() draws the line alone and reads none of them.                     *)
(***************************************************************************)
EXTENDS Integers, Sequences, FiniteSets, TLC

\* ------------------------------------------------------------------ bounds
MaxLevels == 3
MaxLinks == 1
MaxArrows == 1
MaxBoxes == 1

\* ------------------------------------------------------- rational numbers
Abs(x) == IF x < 0 THEN -x ELSE x

RECURSIVE GCD(_, _)
GCD(a, b) == IF b = 0 THEN a ELSE GCD(b, a % b)

Norm(n, d) == LET g == GCD(Abs(n), d) IN <<n \div g, d \div g>>

Rat(i) == <<i, 1>>

RAdd(a, b) ==
    LET g == GCD(a[2], b[2])
    IN  Norm(a[1] * (b[2] \div g) + b[1] * (a[2] \div g), (a[2] \div g) * b[2])

RNeg(a) == <<-a[1], a[2]>>

RSub(a, b) == RAdd(a, RNeg(b))

RMul(a, b) ==
    LET x == Norm(a[1], b[2])
        y == Norm(b[1], a[2])
    IN  Norm(x[1] * y[1], x[2] * y[2])

RDivInt(a, k) == LET x == Norm(a[1], k) IN Norm(x[1], a[2] * x[2])

Half == <<1, 2>>

\* ---------------------------------------------------- constructor defaults
ratio == <<16181, 10000>>

offset_ratio == <<2, 100>>

Auto == [mode |-> "auto"]

Num(r) == [mode |-> "num", val |-> r]

IsAuto(p) == p.mode = "auto"

\* ------------------------------------------------------------------ state
VARIABLES
    kwargs,           \* the dimension / space / offset given to ED(**kwargs)
    dimension,        \* self.dimension
    space,            \* self.space
    offset,           \* self.offset
    pos_number,       \* self.pos_number
    levels,           \* self.levels: sequence of [energy, pos]
    links,            \* self.links: sequence of [start_id, end_id]
    arrows,           \* self.arrows: sequence of <<start_id, end_id>>
    electons_boxes,   \* self.electons_boxes: sequence of [x, y]
    positions_given,  \* history: the position argument of each level's add_level call
    box_level,        \* history: the index of levels each box's level_id resolved to
    result,           \* the last call: [op, args, status]
    drawn             \* the drawing primitives the last call issued, in order

vars == <<kwargs, dimension, space, offset, pos_number, levels, links, arrows,
          electons_boxes, positions_given, box_level, result, drawn>>

model == <<pos_number, levels, links, arrows, electons_boxes, positions_given, box_level>>

scale == <<dimension, space, offset>>

\* ------------------------------------------------------------ input values
None == [kind |-> "none"]

NumPos(i) == [kind |-> "num", num |-> i]

StrPos(s) == [kind |-> "str", str |-> s]

PinValue == <<5, 1>>

ScaleInputs == {Auto, Num(PinValue)}

KwargsInputs == [dimension : ScaleInputs, space : ScaleInputs, offset : ScaleInputs]

DefaultKwargs == [dimension |-> Auto, space |-> Auto, offset |-> Auto]

PinnedKwargs == [dimension |-> Num(PinValue), space |-> Num(PinValue),
                 offset |-> Num(PinValue)]

Energies == {0, 100}

AllPositions == {None, StrPos("last"), StrPos("l"), NumPos(0), NumPos(3), StrPos("first")}

RefIds == {-1, 0, 1}

RotString(s) == [kind |-> "str", str |-> s]

RotNumber(i) == [kind |-> "num", num |-> i]

ValidRotStrings == {"above", "below", "vertical", "horizontal"}

\* ------------------------------------------------------------------- Init
InitWith(kw) ==
    /\ kwargs = kw
    /\ dimension = kw.dimension
    /\ space = kw.space
    /\ offset = kw.offset
    /\ pos_number = 0
    /\ levels = <<>>
    /\ links = <<>>
    /\ arrows = <<>>
    /\ electons_boxes = <<>>
    /\ positions_given = <<>>
    /\ box_level = <<>>
    /\ result = [op |-> "init", args |-> kw, status |-> "ok"]
    /\ drawn = <<>>

Init == \E kw \in KwargsInputs : InitWith(kw)

InitDefault == InitWith(DefaultKwargs)

InitAutoOrPinned == InitWith(DefaultKwargs) \/ InitWith(PinnedKwargs)

\* -------------------------------------------------------------- add_level
\* Mutant: the automatic slot is taken after the counter has advanced.
ResolvePosition_CountFirst(position, pn) ==
    CASE position.kind = "none" ->
            [ok |-> TRUE, pos |-> pn + 1, pos_number |-> pn + 1]
      [] position.kind = "num" ->
            [ok |-> TRUE, pos |-> position.num, pos_number |-> pn]
      [] position.kind = "str" /\ position.str \in {"last", "l"} ->
            [ok |-> TRUE, pos |-> pn, pos_number |-> pn]
      [] OTHER ->
            [ok |-> FALSE, pos |-> pn, pos_number |-> pn]

ResolvePosition(position, pn) ==
    CASE position.kind = "none" ->
            [ok |-> TRUE, pos |-> pn, pos_number |-> pn + 1]
      [] position.kind = "num" ->
            [ok |-> TRUE, pos |-> position.num, pos_number |-> pn]
      [] position.kind = "str" /\ position.str \in {"last", "l"} ->
            [ok |-> TRUE, pos |-> pn, pos_number |-> pn]
      [] OTHER ->
            [ok |-> FALSE, pos |-> pn, pos_number |-> pn]

add_level(energy, position) ==
    /\ LET r == ResolvePosition(position, pos_number)
           args == [energy |-> energy, position |-> position]
       IN  IF r.ok
           THEN /\ Len(levels) < MaxLevels
                /\ pos_number' = r.pos_number
                /\ levels' = Append(levels, [energy |-> energy, pos |-> r.pos])
                /\ positions_given' = Append(positions_given, position)
                /\ result' = [op |-> "add_level", args |-> args, status |-> "ok"]
           ELSE /\ result' = [op |-> "add_level", args |-> args, status |-> "ValueError"]
                /\ UNCHANGED <<pos_number, levels, positions_given>>
    /\ drawn' = <<>>
    /\ UNCHANGED <<kwargs, scale, links, arrows, electons_boxes, box_level>>

\* -------------------------------------------------------------- add_arrow
add_arrow(start_level_id, end_level_id) ==
    /\ Len(arrows) < MaxArrows
    /\ arrows' = Append(arrows, <<start_level_id, end_level_id>>)
    /\ result' = [op |-> "add_arrow",
                  args |-> [start_level_id |-> start_level_id, end_level_id |-> end_level_id],
                  status |-> "ok"]
    /\ drawn' = <<>>
    /\ UNCHANGED <<kwargs, scale, pos_number, levels, links, electons_boxes,
                   positions_given, box_level>>

\* --------------------------------------------------------------- add_link
\* Mutant: the check for a "rotation" key in label_kwargs is missing.
LinkArgsValid_NoKeyCheck(label_kwargs, label_rot) ==
    \/ label_rot.kind = "str" /\ label_rot.str \in ValidRotStrings
    \/ label_rot.kind = "num"

LinkArgsValid(label_kwargs, label_rot) ==
    /\ "rotation" \notin label_kwargs
    /\ \/ label_rot.kind = "str" /\ label_rot.str \in ValidRotStrings
       \/ label_rot.kind = "num"

add_link(start_level_id, end_level_id, label_rot, label_kwargs) ==
    /\ LET args == [start_level_id |-> start_level_id, end_level_id |-> end_level_id,
                    label_rot |-> label_rot, label_kwargs |-> label_kwargs]
       IN  IF LinkArgsValid(label_kwargs, label_rot)
           THEN /\ Len(links) < MaxLinks
                /\ links' = Append(links, [start_id |-> start_level_id,
                                           end_id |-> end_level_id])
                /\ result' = [op |-> "add_link", args |-> args, status |-> "ok"]
           ELSE /\ result' = [op |-> "add_link", args |-> args, status |-> "ValueError"]
                /\ UNCHANGED links
    /\ drawn' = <<>>
    /\ UNCHANGED <<kwargs, scale, pos_number, levels, arrows, electons_boxes,
                   positions_given, box_level>>

\* ---------------------------------------------------------- __auto_adjust
Energy_variation(lv) ==
    LET energies == {lv[i].energy : i \in 1 .. Len(lv)}
        hi == CHOOSE e \in energies : \A f \in energies : f <= e
        lo == CHOOSE e \in energies : \A f \in energies : e <= f
    IN  Rat(Abs(hi - lo))

\* Mutant: the number of distinct slots in use, empty columns not counted.
positions_Distinct(lv) == Cardinality({lv[i].pos : i \in 1 .. Len(lv)})

positions(lv) ==
    LET pos == {lv[i].pos : i \in 1 .. Len(lv)}
        hi == CHOOSE p \in pos : \A q \in pos : q <= p
        lo == CHOOSE p \in pos : \A q \in pos : p <= q
    IN  hi - lo + 1

space_for_level(lv) == RDivInt(RMul(Energy_variation(lv), ratio), positions(lv))

\* Mutant: dimension and space are recomputed on every call.
WidthIsAuto_Always(d, s) == TRUE

WidthIsAuto(d, s) == IsAuto(d) \/ IsAuto(s)

OffsetIsAuto(o) == IsAuto(o)

\* Called with a non-empty lv only: max() of an empty list raises ValueError
\* before any field is assigned.
auto_adjust(d, s, o, lv) ==
    [dimension |-> IF WidthIsAuto(d, s)
                   THEN Num(RMul(space_for_level(lv), <<7, 10>>)) ELSE d,
     space     |-> IF WidthIsAuto(d, s)
                   THEN Num(RMul(space_for_level(lv), <<3, 10>>)) ELSE s,
     offset    |-> IF OffsetIsAuto(o)
                   THEN Num(RMul(Energy_variation(lv), offset_ratio)) ELSE o]

\* --------------------------------------------------------- get_level_line
\* Python's list index: i in 0..n-1 is itself, i in -n..-1 counts from the end,
\* anything else raises IndexError (0 here).  The result is a TLA+ index.
PyIndex(i, n) ==
    IF 0 <= i /\ i < n THEN i + 1
    ELSE IF -n <= i /\ i < 0 THEN n + i + 1
    ELSE 0

\* k is a valid TLA+ index of lv; d and s are the numeric dimension and space.
get_level_line(k, lv, d, s) ==
    LET start == RMul(Rat(lv[k].pos), RAdd(d, s))
    IN  <<start, RAdd(start, d)>>

Mid(line_pos) == RMul(Half, RAdd(line_pos[1], line_pos[2]))

\* -------------------------------------------------------- add_electronbox
add_electronbox(level_id) ==
    /\ Len(electons_boxes) < MaxBoxes
    /\ LET args == [level_id |-> level_id]
       IN  IF levels = <<>>
           THEN /\ result' = [op |-> "add_electronbox", args |-> args, status |-> "ValueError"]
                /\ UNCHANGED <<scale, electons_boxes, box_level>>
           ELSE LET adj == auto_adjust(dimension, space, offset, levels)
                    k == PyIndex(level_id, Len(levels))
                IN  /\ dimension' = adj.dimension
                    /\ space' = adj.space
                    /\ offset' = adj.offset
                    /\ IF k = 0
                       THEN /\ result' = [op |-> "add_electronbox", args |-> args,
                                          status |-> "IndexError"]
                            /\ UNCHANGED <<electons_boxes, box_level>>
                       ELSE LET level_pos == get_level_line(k, levels, adj.dimension.val,
                                                            adj.space.val)
                            IN  /\ electons_boxes' =
                                       Append(electons_boxes,
                                              [x |-> Mid(level_pos), y |-> Rat(levels[k].energy)])
                                /\ box_level' = Append(box_level, k)
                                /\ result' = [op |-> "add_electronbox", args |-> args,
                                              status |-> "ok"]
    /\ drawn' = <<>>
    /\ UNCHANGED <<kwargs, pos_number, levels, links, arrows, positions_given>>

\* ------------------------------------------------------------------- plot
Text(x, y) == [kind |-> "text", x |-> x, y |-> y]

\* One hlines and the four side texts of level k (and its id).
LevelPrimitives(k, lv, d, s, o, show_IDs) ==
    LET line_pos == get_level_line(k, lv, d, s)
        mid == Mid(line_pos)
        e == Rat(lv[k].energy)
    IN  << [kind |-> "hlines", y |-> e, xmin |-> line_pos[1], xmax |-> line_pos[2]],
           Text(mid, RAdd(e, o)),
           Text(mid, RSub(e, RMul(Rat(2), o))),
           Text(line_pos[2], e),
           Text(line_pos[1], e) >>
        \o (IF show_IDs THEN <<Text(line_pos[1], RAdd(e, o))>> ELSE <<>>)

LinkResolves(l, lv) ==
    PyIndex(l.start_id, Len(lv)) # 0 /\ PyIndex(l.end_id, Len(lv)) # 0

\* Mutant: the line runs from the start of the start level's segment to the end
\* of the end level's segment.
LinkPrimitives_Swapped(l, lv, d, s) ==
    LET a == PyIndex(l.start_id, Len(lv))
        b == PyIndex(l.end_id, Len(lv))
    IN  << [kind |-> "line",
            x1 |-> get_level_line(a, lv, d, s)[1],
            x2 |-> get_level_line(b, lv, d, s)[2],
            y1 |-> Rat(lv[a].energy),
            y2 |-> Rat(lv[b].energy)] >>

\* The Line2D of a link whose ids resolve (label is None).
LinkPrimitives(l, lv, d, s) ==
    LET a == PyIndex(l.start_id, Len(lv))
        b == PyIndex(l.end_id, Len(lv))
    IN  << [kind |-> "line",
            x1 |-> get_level_line(a, lv, d, s)[2],
            x2 |-> get_level_line(b, lv, d, s)[1],
            y1 |-> Rat(lv[a].energy),
            y2 |-> Rat(lv[b].energy)] >>

ArrowResolves(ar, lv) ==
    PyIndex(ar[1], Len(lv)) # 0 /\ PyIndex(ar[2], Len(lv)) # 0

\* The two annotations of an arrow whose ids resolve.
ArrowPrimitives(ar, lv, d, s) ==
    LET a == PyIndex(ar[1], Len(lv))
        b == PyIndex(ar[2], Len(lv))
        x1 == Mid(get_level_line(a, lv, d, s))
        y1 == Rat(lv[a].energy)
        y2 == Rat(lv[b].energy)
        gap == RSub(y1, y2)
        middle == RSub(y1, RMul(Half, gap))
    IN  << [kind |-> "annotate", text |-> "", xy |-> <<x1, y1>>, xytext |-> <<x1, middle>>],
           [kind |-> "annotate", text |-> "gap", xy |-> <<x1, y2>>, xytext |-> <<x1, middle>>] >>

BoxPrimitives(box) == << [kind |-> "orbital_boxes", x |-> box.x, y |-> box.y] >>

\* The primitives of the first n levels, links, arrows and boxes, in loop order.
RECURSIVE LevelsDrawn(_, _, _, _, _, _)
LevelsDrawn(n, lv, d, s, o, show_IDs) ==
    IF n = 0 THEN <<>>
    ELSE LevelsDrawn(n - 1, lv, d, s, o, show_IDs)
         \o LevelPrimitives(n, lv, d, s, o, show_IDs)

RECURSIVE LinksDrawn(_, _, _, _, _)
LinksDrawn(n, lk, lv, d, s) ==
    IF n = 0 THEN <<>>
    ELSE LinksDrawn(n - 1, lk, lv, d, s) \o LinkPrimitives(lk[n], lv, d, s)

RECURSIVE ArrowsDrawn(_, _, _, _, _)
ArrowsDrawn(n, ar, lv, d, s) ==
    IF n = 0 THEN <<>>
    ELSE ArrowsDrawn(n - 1, ar, lv, d, s) \o ArrowPrimitives(ar[n], lv, d, s)

RECURSIVE BoxesDrawn(_, _)
BoxesDrawn(n, bx) ==
    IF n = 0 THEN <<>> ELSE BoxesDrawn(n - 1, bx) \o BoxPrimitives(bx[n])

\* The index of the first link (arrow) from i on whose ids raise IndexError, or
\* one past the last.
RECURSIVE FirstBadLink(_, _, _)
FirstBadLink(i, lk, lv) ==
    IF i > Len(lk) THEN Len(lk) + 1
    ELSE IF ~LinkResolves(lk[i], lv) THEN i
    ELSE FirstBadLink(i + 1, lk, lv)

RECURSIVE FirstBadArrow(_, _, _)
FirstBadArrow(i, ar, lv) ==
    IF i > Len(ar) THEN Len(ar) + 1
    ELSE IF ~ArrowResolves(ar[i], lv) THEN i
    ELSE FirstBadArrow(i + 1, ar, lv)

\* What plot() draws after __auto_adjust, and how it ends: the levels, then the
\* links up to the first whose id raises IndexError, then the arrows likewise,
\* then the electron boxes.
PlotDraw(lv, lk, ar, bx, d, s, o, show_IDs) ==
    LET badLink == FirstBadLink(1, lk, lv)
        badArrow == FirstBadArrow(1, ar, lv)
        levelsDrawn == LevelsDrawn(Len(lv), lv, d, s, o, show_IDs)
    IN  IF badLink <= Len(lk)
        THEN [status |-> "IndexError",
              drawn |-> levelsDrawn \o LinksDrawn(badLink - 1, lk, lv, d, s)]
        ELSE IF badArrow <= Len(ar)
        THEN [status |-> "IndexError",
              drawn |-> levelsDrawn \o LinksDrawn(Len(lk), lk, lv, d, s)
                        \o ArrowsDrawn(badArrow - 1, ar, lv, d, s)]
        ELSE [status |-> "ok",
              drawn |-> levelsDrawn \o LinksDrawn(Len(lk), lk, lv, d, s)
                        \o ArrowsDrawn(Len(ar), ar, lv, d, s)
                        \o BoxesDrawn(Len(bx), bx)]

plot(show_IDs) ==
    /\ LET args == [show_IDs |-> show_IDs]
       IN  IF levels = <<>>
           THEN /\ result' = [op |-> "plot", args |-> args, status |-> "ValueError"]
                /\ drawn' = <<>>
                /\ UNCHANGED scale
           ELSE LET adj == auto_adjust(dimension, space, offset, levels)
                    out == PlotDraw(levels, links, arrows, electons_boxes,
                                    adj.dimension.val, adj.space.val, adj.offset.val, show_IDs)
                IN  /\ dimension' = adj.dimension
                    /\ space' = adj.space
                    /\ offset' = adj.offset
                    /\ result' = [op |-> "plot", args |-> args, status |-> out.status]
                    /\ drawn' = out.drawn
    /\ UNCHANGED <<kwargs, model>>

\* --------------------------------------------------------- specifications
LabelRots == {RotString("above"), RotString("below"), RotString("vertical"),
              RotString("horizontal"), RotNumber(45), RotString("diagonal")}

LabelKwargs == {{}, {"rotation"}}

Above == RotString("above")

\* Every operation on ED() with default arguments; level ids that are negative,
\* registered, or not registered yet.
Next ==
    \/ \E e \in Energies : add_level(e, None)
    \/ \E a \in RefIds, b \in RefIds : add_link(a, b, Above, {})
    \/ \E a \in RefIds, b \in RefIds : add_arrow(a, b)
    \/ \E a \in RefIds : add_electronbox(a)
    \/ plot(FALSE)

Spec == InitDefault /\ [][Next]_vars

\* add_level alone, over every kind of position argument.
NextLevels == \E e \in Energies, p \in AllPositions : add_level(e, p)

SpecLevels == InitDefault /\ [][NextLevels]_vars

\* The operations that read or write the scale parameters, over every choice of
\* pinned parameters.
NextScale ==
    \/ \E e \in Energies : add_level(e, None)
    \/ add_level(100, NumPos(3))
    \/ \E a \in {-1, 0} : add_electronbox(a)
    \/ plot(FALSE)

SpecScale == Init /\ [][NextScale]_vars

\* Every operation, add_link over every label argument.
NextLinks ==
    \/ \E e \in Energies : add_level(e, None)
    \/ \E r \in LabelRots, kw \in LabelKwargs : add_link(0, 1, r, kw)
    \/ add_arrow(1, 0)
    \/ add_electronbox(0)
    \/ plot(FALSE)

SpecLinks == InitDefault /\ [][NextLinks]_vars

\* Levels in automatic and explicit slots and links between the first two ids, in
\* both directions and from a level to itself; all scale parameters automatic
\* or all pinned.
NextGeometry ==
    \/ \E e \in Energies : add_level(e, None)
    \/ add_level(0, NumPos(-1))
    \/ \E a \in 0 .. 1, b \in 0 .. 1 : add_link(a, b, Above, {})
    \/ \E sh \in BOOLEAN : plot(sh)

SpecGeometry == InitAutoOrPinned /\ [][NextGeometry]_vars

\* ================================================================= claims
RLess(a, b) == RSub(a, b)[1] < 0

RLeq(a, b) == RSub(a, b)[1] <= 0

RMin(a, b) == IF RLess(b, a) THEN b ELSE a

RMax(a, b) == IF RLess(a, b) THEN b ELSE a

IsNone(p) == p.kind = "none"

IsLast(p) == p.kind = "str" /\ p.str \in {"last", "l"}

AutoBefore(i) == {j \in 1 .. i - 1 : IsNone(positions_given[j])}

MaxOf(S) == CHOOSE x \in S : \A y \in S : y <= x

MinOf(S) == CHOOSE x \in S : \A y \in S : x <= y

EnergySet == {levels[i].energy : i \in 1 .. Len(levels)}

SlotSet == {levels[i].pos : i \in 1 .. Len(levels)}

\* C1: a level added with position 'last' (or 'l') receives the slot of the most
\* recently auto-assigned level, i.e. of the latest earlier add_level call made
\* with position unspecified.
C1_LastReusesAutoSlot ==
    \A i \in 1 .. Len(levels) :
        (IsLast(positions_given[i]) /\ AutoBefore(i) # {})
            => levels[i].pos = levels[MaxOf(AutoBefore(i))].pos

\* C2: the k-th add_level call with position unspecified (k from 0) receives
\* slot k, and the running slot counter equals the number of such calls: calls
\* with a numeric slot, with 'last', or with an invalid position leave it alone.
C2_AutoSlotsCountFromZero ==
    /\ pos_number = Cardinality({j \in 1 .. Len(levels) : IsNone(positions_given[j])})
    /\ \A i \in 1 .. Len(levels) :
          IsNone(positions_given[i]) => levels[i].pos = Cardinality(AutoBefore(i))

\* C2 witness: an unspecified-position call after a 'last' call and before a
\* call that failed on an invalid position.
C2_Witness ==
    /\ result.op = "add_level" /\ result.status = "ValueError"
    /\ Len(levels) = 2
    /\ IsLast(positions_given[1])
    /\ IsNone(positions_given[2])

\* C3: every scale parameter the caller pinned to a number in ED(...) still holds
\* the pinned value, whatever mode the other two are in.
C3_PinnedParametersKept ==
    /\ ~IsAuto(kwargs.dimension) => dimension = kwargs.dimension
    /\ ~IsAuto(kwargs.space) => space = kwargs.space
    /\ ~IsAuto(kwargs.offset) => offset = kwargs.offset

FormulaUnit == RDivInt(RMul(Rat(MaxOf(EnergySet) - MinOf(EnergySet)), <<16181, 10000>>),
                       MaxOf(SlotSet) - MinOf(SlotSet) + 1)

\* C4: with no scale parameter set by the caller, the segment_width, slot_gap and
\* vertical_offset a render call uses are the auto-scale formula applied to the
\* levels registered at the time of that call.
C4_RenderUsesCurrentLevels ==
    (result.op = "plot" /\ result.status # "ValueError" /\ kwargs = DefaultKwargs)
        => /\ dimension = Num(RMul(<<7, 10>>, FormulaUnit))
           /\ space = Num(RMul(<<3, 10>>, FormulaUnit))
           /\ offset = Num(RMul(Rat(MaxOf(EnergySet) - MinOf(EnergySet)), <<1, 50>>))

BadLinkArgs(args) ==
    \/ "rotation" \in args.label_kwargs
    \/ ~(\/ args.label_rot.kind = "num"
         \/ args.label_rot.kind = "str"
            /\ args.label_rot.str \in {"above", "below", "vertical", "horizontal"})

\* C5: add_link fails exactly when label_kwargs holds a 'rotation' key or
\* label_rot is neither one of the four tokens nor a number, and a failed call
\* appends no link and leaves the levels, arrows, electron boxes, slot counter
\* and scale parameters unchanged.
C5_AddLinkValidatesFirst ==
    [][result'.op = "add_link"
          => /\ (result'.status # "ok") <=> BadLinkArgs(result'.args)
             /\ (result'.status # "ok")
                   => UNCHANGED <<levels, links, arrows, electons_boxes, pos_number,
                                  dimension, space, offset>>
             /\ (result'.status = "ok")
                   => /\ Len(links') = Len(links) + 1
                      /\ links'[Len(links')].start_id = result'.args.start_level_id
                      /\ links'[Len(links')].end_id = result'.args.end_level_id]_vars

\* C5 witness: a failed add_link on a model that holds a level, an arrow, a box
\* and computed scale parameters.
C5_Witness ==
    /\ result.op = "add_link" /\ result.status = "ValueError"
    /\ "rotation" \in result.args.label_kwargs
    /\ levels # <<>> /\ arrows # <<>> /\ electons_boxes # <<>>
    /\ ~IsAuto(dimension)

InRange(id) == 0 <= id /\ id < Len(levels)

\* C6: a box, link or arrow that references a level id outside 0..N-1 (negative
\* ids included) ends in an error: the box at its add_electronbox call, links
\* and arrows at the render call.
C6_OutOfRangeIdIsError ==
    /\ (result.op = "add_electronbox" /\ ~InRange(result.args.level_id))
          => result.status # "ok"
    /\ (/\ result.op = "plot"
        /\ \/ \E i \in 1 .. Len(links) :
                 ~InRange(links[i].start_id) \/ ~InRange(links[i].end_id)
           \/ \E i \in 1 .. Len(arrows) :
                 ~InRange(arrows[i][1]) \/ ~InRange(arrows[i][2]))
          => result.status # "ok"

\* C7: a render call that ends in an error has issued no drawing primitive.
C7_FailedRenderDrawsNothing ==
    (result.op = "plot" /\ result.status # "ok") => drawn = <<>>

Lines == SelectSeq(drawn, LAMBDA p : p.kind = "line")

Resolve(id) == IF id < 0 THEN Len(levels) + id + 1 ELSE id + 1

XStart(k) == RMul(Rat(levels[k].pos), RAdd(dimension.val, space.val))

XEnd(k) == RAdd(XStart(k), dimension.val)

\* The length over which a line from x1 to x2 overlaps the segment of level k.
Overlap(x1, x2, k) ==
    RSub(RMin(RMax(x1, x2), XEnd(k)), RMax(RMin(x1, x2), XStart(k)))

NoOverlap(x1, x2, k) == RLeq(Overlap(x1, x2, k), Rat(0))

\* C8 (as stated): every drawn link runs from x_end of its start level to
\* x_start of its end level and overlaps neither level's segment over a positive
\* length, for any pair of slots.
C8_LinksNeverOverlapSegments ==
    result.op = "plot" =>
        \A i \in 1 .. Len(Lines) :
            LET a == Resolve(links[i].start_id)
                b == Resolve(links[i].end_id)
            IN  /\ Lines[i].x1 = XEnd(a)
                /\ Lines[i].x2 = XStart(b)
                /\ NoOverlap(Lines[i].x1, Lines[i].x2, a)
                /\ NoOverlap(Lines[i].x1, Lines[i].x2, b)

\* C8 (amended): every drawn link runs from x_end of its start level to x_start
\* of its end level; when the start level's slot is below the end level's slot
\* the line overlaps neither segment over a positive length, and otherwise it
\* covers both segments whole.
C8_ForwardLinksBridgeGaps ==
    result.op = "plot" =>
        \A i \in 1 .. Len(Lines) :
            LET a == Resolve(links[i].start_id)
                b == Resolve(links[i].end_id)
            IN  /\ Lines[i].x1 = XEnd(a)
                /\ Lines[i].x2 = XStart(b)
                /\ Lines[i].y1 = Rat(levels[a].energy)
                /\ Lines[i].y2 = Rat(levels[b].energy)
                /\ IF levels[a].pos < levels[b].pos
                   THEN /\ NoOverlap(Lines[i].x1, Lines[i].x2, a)
                        /\ NoOverlap(Lines[i].x1, Lines[i].x2, b)
                   ELSE /\ Overlap(Lines[i].x1, Lines[i].x2, a) = dimension.val
                        /\ Overlap(Lines[i].x1, Lines[i].x2, b) = dimension.val

\* C8 witness: a link drawn from a lower slot to a higher one, between segments
\* of positive width.
C8_Witness ==
    /\ result.op = "plot"
    /\ Len(Lines) >= 1
    /\ levels[Resolve(links[1].start_id)].pos < levels[Resolve(links[1].end_id)].pos
    /\ RLess(Rat(0), dimension.val)
    /\ RLess(Lines[1].x1, Lines[1].x2)

AllAuto == IsAuto(dimension) /\ IsAuto(space) /\ IsAuto(offset)

\* C9: __auto_adjust on a non-empty model with all three parameters in 'auto'
\* mode sets slot_count = max(slot) - min(slot) + 1, segment_width = 0.7 and
\* slot_gap = 0.3 of slot_unit = energy_span * ratio / slot_count, and
\* vertical_offset = energy_span * offset_ratio; energies {0, 100} in slots
\* {0, 1} give slot_unit 80.905.
C9_AutoScaleFormula ==
    [][(AllAuto /\ levels # <<>> /\ result'.op \in {"plot", "add_electronbox"})
          => LET span == Rat(MaxOf(EnergySet) - MinOf(EnergySet))
                 slot_count == MaxOf(SlotSet) - MinOf(SlotSet) + 1
                 unit == RAdd(dimension'.val, space'.val)
             IN  /\ RMul(unit, Rat(slot_count)) = RMul(span, <<16181, 10000>>)
                 /\ RMul(dimension'.val, Rat(10)) = RMul(unit, Rat(7))
                 /\ RMul(space'.val, Rat(10)) = RMul(unit, Rat(3))
                 /\ RMul(dimension'.val, Rat(3)) = RMul(space'.val, Rat(7))
                 /\ RMul(offset'.val, Rat(50)) = span
                 /\ (EnergySet = {0, 100} /\ SlotSet = {0, 1})
                       => unit = Norm(80905, 1000)]_vars

\* C9 witness: a render has just computed the parameters of a model whose slots
\* leave empty columns between them and whose energies differ.
C9_Witness ==
    /\ result.op = "plot" /\ result.status = "ok"
    /\ kwargs = DefaultKwargs
    /\ MaxOf(SlotSet) - MinOf(SlotSet) + 1 > Cardinality(SlotSet)
    /\ MaxOf(EnergySet) > MinOf(EnergySet)
    /\ RMul(RAdd(dimension.val, space.val), Rat(MaxOf(SlotSet) - MinOf(SlotSet) + 1))
          = RMul(Rat(MaxOf(EnergySet) - MinOf(EnergySet)), <<16181, 10000>>)

\* C10: every stored electron-box anchor (x, y) equals (x_mid, energy) of its
\* level under the segment_width and slot_gap in effect, at render time as in
\* every other state, also when levels added after the box change the energy
\* span or the slot range.
C10_BoxAnchorsMatchLevels ==
    \A i \in 1 .. Len(electons_boxes) :
        /\ ~IsAuto(dimension) /\ ~IsAuto(space)
        /\ electons_boxes[i].x =
              RAdd(RMul(Rat(levels[box_level[i]].pos), RAdd(dimension.val, space.val)),
                   RMul(dimension.val, <<1, 2>>))
        /\ electons_boxes[i].y = Rat(levels[box_level[i]].energy)

\* C10 witness: a render of a model with a box, after a level added later than
\* the box changed what the auto-scale formula gives for the current levels.
C10_Witness ==
    /\ result.op = "plot" /\ result.status = "ok"
    /\ kwargs = DefaultKwargs
    /\ electons_boxes # <<>>
    /\ box_level[1] < Len(levels)
    /\ levels[box_level[1]].pos # 0
    /\ RLess(Rat(0), dimension.val)
    /\ dimension # Num(RMul(<<7, 10>>, FormulaUnit))

====
